---- MODULE Spec2Model ----
(***************************************************************************)
(* Model of two LIT client modules: the global settings dialog             *)
(* (global_settings.ts) and the datapoint editor                           *)
(* (datapoint_editor_module.ts), together with the part of the shared      *)
(* application state (AppState, SelectionService, SettingsService,         *)
(* ApiService) that the two modules read and write.                        *)
(***************************************************************************)
EXTENDS Integers, Sequences, FiniteSets

(***************************************************************************)
(* Bounds of the model.                                                    *)
(***************************************************************************)
\* Remote calls (save, load, create dataset) the settings dialog issues in a run.
MaxCalls == 1
\* Indexing calls (Add, Add and compare) the editor issues in a run.
MaxIndexing == 1
\* Remote calls and new ids of a run in which calls run side by side.
MaxAsync == 3

(***************************************************************************)
(* The fixed universe: model names, dataset names, layouts, paths.         *)
(***************************************************************************)
ModelNames == {"m1", "m2"}
BaseDatasets == {"dsA", "dsB"}
NewNames == <<"new1", "new2", "new3", "new4">>
LayoutNames == {"default", "simple"}
TabNames == {"Models", "Dataset", "Layout"}
Paths == {"", "p"}
NONE_DS_DICT_KEY == "none"
NoId == ""
FreshIds == <<"n1", "n2", "n3", "n4">>

VARIABLES
  \* ---- shared application state (AppState, SelectionService) ----
  metadata,               \* [datasets: dataset -> base dataset, models: model -> datasets]
  currentModels,          \* appState.currentModels
  currentDataset,         \* appState.currentDataset
  layoutName,             \* appState.layoutName
  inputData,              \* dataset -> set of records (appState.inputData)
  loaded,                 \* datasets whose data finished loading
  primarySelectedId,      \* selectionService.primarySelectedId
  referenceSelectedId,    \* getServiceArray(SelectionService)[1].primarySelectedId
  compareExamplesEnabled, \* appState.compareExamplesEnabled
  nextId,                 \* ids handed out by the server so far
  \* ---- settings dialog (GlobalSettingsComponent) ----
  isOpen, selectedDataset, selectedLayout, modelCheckboxValues, selectedTab,
  pathForDatapoints, datapointsStatus,
  apiCalls,               \* outstanding save / load / createDataset calls
  lastUpdate,             \* the last settingsService.updateSettings call
  numUpdates,             \* how many such calls were made since open()
  atOpen,                 \* the shared application state when open() last ran
  callsIssued,            \* remote calls issued so far
  \* ---- datapoint editor (DatapointEditorModule) ----
  mounted, editedData, datapointEdited, isShiftPressed,
  entry,                  \* the field renderEntry was last given, and what became of it
  whenPending,            \* a when(currentInputDataIsLoaded) is waiting
  lastReset,              \* the last resetEditedData call, while no edit followed it
  indexCalls              \* outstanding appState.indexDatapoints calls

appVars == <<metadata, currentModels, currentDataset, layoutName, inputData,
             loaded, primarySelectedId, referenceSelectedId,
             compareExamplesEnabled, nextId>>
settingsVars == <<isOpen, selectedDataset, selectedLayout, modelCheckboxValues,
                  selectedTab, pathForDatapoints, datapointsStatus, apiCalls,
                  lastUpdate, numUpdates, atOpen, callsIssued>>
editorVars == <<mounted, entry, editedData, datapointEdited, isShiftPressed,
                whenPending, lastReset, indexCalls>>
vars == <<appVars, settingsVars, editorVars>>

(***************************************************************************)
(* Values of a datapoint's fields.  A JavaScript string is a sequence of   *)
(* characters, a string[] is a sequence of such sequences; the tag keeps   *)
(* '' and [] apart, as === does.                                           *)
(***************************************************************************)
Str(s) == [t |-> "str", s |-> s, l |-> <<>>, n |-> 0]
Lst(l) == [t |-> "list", s |-> <<>>, l |-> l, n |-> 0]
Num(n) == [t |-> "num", s |-> <<>>, l |-> <<>>, n |-> n]
NaN == [t |-> "nan", s |-> <<>>, l |-> <<>>, n |-> 0]
AllDatasets == BaseDatasets \cup {NewNames[i] : i \in 1..Len(NewNames)}
EmptyData == [k \in {} |-> Str(<<>>)]
NoRecord == [id |-> NoId, data |-> EmptyData, added |-> FALSE, parentId |-> NoId]

\* A field's type descriptor: its kind, its vocab (or null) and its separator
\* (or null).
FieldSpec(kind) == [kind |-> kind, hasVocab |-> FALSE, vocab |-> {},
                    hasSeparator |-> FALSE, separator |-> <<>>]
WithVocab(kind, vocab) == [FieldSpec(kind) EXCEPT !.hasVocab = TRUE, !.vocab = vocab]
\* renderEntry's field: its type descriptor and its value, then the input
\* chosen for it, the string the input shows, the string of the input event
\* and the value its converter made of it.
NoEntry == [stage |-> "none", spec |-> FieldSpec("TextSegment"), value |-> <<>>,
            input |-> "", shown |-> <<>>, raw |-> <<>>, parsed |-> Lst(<<>>)]

\* The field specification of each dataset the server ships.
SpecOfBase(base) ==
  IF base = "dsA"
  THEN [k \in {"text"} |-> FieldSpec("TextSegment")]
  ELSE [k \in {"text", "tokens"} |->
          IF k = "text" THEN FieldSpec("TextSegment") ELSE FieldSpec("Tokens")]

\* The records the server returns when a dataset's data is loaded.
BaseRecords(base) ==
  IF base = "dsA"
  THEN {[id |-> "a1", added |-> FALSE, parentId |-> NoId,
         data |-> [k \in {"text"} |-> Str(<<"a">>)]]}
  ELSE {[id |-> "b1", added |-> FALSE, parentId |-> NoId,
         data |-> [k \in {"text", "tokens"} |->
                     IF k = "text" THEN Str(<<"a">>) ELSE Lst(<<<<"a">>>>)]]}

\* The input fields each model requires.
RequiredInputs(m) == IF m = "m1" THEN {"text"} ELSE {}

InitMetadata ==
  [datasets |-> [d \in BaseDatasets |-> d],
   models |-> [m \in ModelNames |-> IF m = "m1" THEN {"dsA"} ELSE {"dsA", "dsB"}]]

(***************************************************************************)
(* AppState: derived values.                                               *)
(***************************************************************************)
DatasetNames == DOMAIN metadata.datasets
currentDatasetSpec == SpecOfBase(metadata.datasets[currentDataset])
currentInputDataKeys == DOMAIN currentDatasetSpec
currentInputDataIsLoaded == currentDataset \in loaded
currentInputData == IF currentInputDataIsLoaded THEN inputData[currentDataset] ELSE {}
currentModelRequiredInputSpecKeys == UNION {RequiredInputs(m) : m \in currentModels}

\* lib/types defaultValueByField: [] for the list kinds, '' for the others.
defaultValueByField(key, spec) ==
  IF spec[key].kind \in {"Tokens", "SequenceTags", "SpanLabels", "EdgeLabels",
                         "SparseMultilabel"}
  THEN Lst(<<>>) ELSE Str(<<>>)

\* AppState.getCurrentInputDataById: the record or null.
InputDataById(ds, ld, data, id) ==
  IF id # NoId /\ ds \in ld /\ \E r \in data[ds] : r.id = id
  THEN CHOOSE r \in data[ds] : r.id = id
  ELSE NoRecord
primarySelectedInputData ==
  InputDataById(currentDataset, loaded, inputData, primarySelectedId)

\* SettingsService.isDatasetValidForModels: every model lists the dataset.
isDatasetValidForModels(dataset, models) ==
  \A m \in models : dataset \in metadata.models[m]

(***************************************************************************)
(* The datapoint editor's reset and its two reactions (firstUpdated).      *)
(***************************************************************************)
\* resetEditedData(null) under a specification: every key of the dataset
\* gets its default; resetEditedData(record.data): every key of the record
\* gets the record's value.  NoRecord stands for null.
resetEditedData(rec, spec) ==
  LET keys == IF rec = NoRecord THEN DOMAIN spec ELSE DOMAIN rec.data
  IN [key \in keys |->
        IF rec = NoRecord THEN defaultValueByField(key, spec) ELSE rec.data[key]]

\* What the last resetEditedData call was given: its argument and the
\* field specification of the dataset that was current when it ran.
NoReset == [kind |-> "none", data |-> EmptyData, spec |-> EmptyData]
ResetNote(rec, spec) ==
  [kind |-> IF rec = NoRecord THEN "null" ELSE "record", data |-> rec.data,
   spec |-> spec]

\* The editor's state after the reactions to a change of the shared state
\* have run: the possible (editedData, datapointEdited, whenPending).
\*   - reaction on currentDataset: registers when(currentInputDataIsLoaded),
\*     whose callback is resetEditedData(null);
\*   - reaction on primarySelectedInputData: resetEditedData(its data).
\* selFirst: the selection changed in an earlier action of the same handler
\* (updateSettings clears the selection before it sets the dataset).
EditorOutcomes(meta2, ds2, ld2, data2, sel2, selFirst) ==
  LET oldSel == primarySelectedInputData
      newSel == InputDataById(ds2, ld2, data2, sel2)
      spec2 == SpecOfBase(meta2.datasets[ds2])
      dsChanged == ds2 # currentDataset
      waiting == dsChanged \/ whenPending
      whenFires == waiting /\ ds2 \in ld2
      selFires == newSel # oldSel
      selSpec == IF selFirst THEN currentDatasetSpec ELSE spec2
      same == [draft |-> editedData, edited |-> datapointEdited, reset |-> lastReset]
      bySel == [draft |-> resetEditedData(newSel, selSpec), edited |-> FALSE,
                reset |-> ResetNote(newSel, selSpec)]
      byWhen == [draft |-> resetEditedData(NoRecord, spec2), edited |-> FALSE,
                 reset |-> ResetNote(NoRecord, spec2)]
      ends == IF ~mounted THEN {same}
              ELSE IF selFires /\ whenFires
                   THEN (IF selFirst THEN {byWhen} ELSE {bySel, byWhen})
              ELSE IF selFires THEN {bySel}
              ELSE IF whenFires THEN {byWhen}
              ELSE {same}
  IN {[draft |-> e.draft, edited |-> e.edited, reset |-> e.reset,
       pending |-> mounted /\ waiting /\ ~(ds2 \in ld2)] : e \in ends}

EditorReacts(meta2, ds2, ld2, data2, sel2, selFirst) ==
  \E e \in EditorOutcomes(meta2, ds2, ld2, data2, sel2, selFirst) :
    /\ editedData' = e.draft
    /\ datapointEdited' = e.edited
    /\ lastReset' = e.reset
    /\ whenPending' = e.pending

(***************************************************************************)
(* Shared services.                                                        *)
(***************************************************************************)
\* SettingsService.updateSettings: the selection is cleared when the dataset
\* changes, then models, dataset and layout are set; the dataset's data is
\* loaded asynchronously (LoadComplete).
updateSettings(models, dataset, layout) ==
  LET sel2 == IF dataset # currentDataset THEN NoId ELSE primarySelectedId
  IN /\ currentModels' = models
     /\ currentDataset' = dataset
     /\ layoutName' = layout
     /\ primarySelectedId' = sel2
     /\ referenceSelectedId' =
          IF dataset # currentDataset THEN NoId ELSE referenceSelectedId
     /\ EditorReacts(metadata, dataset, loaded, inputData, sel2, TRUE)
     /\ UNCHANGED <<metadata, inputData, loaded, compareExamplesEnabled, nextId>>

\* AppState.commitNewDatapoints: the records join the current dataset's data.
commitNewDatapoints(datapoints) ==
  IF currentInputDataIsLoaded
  THEN [inputData EXCEPT ![currentDataset] = @ \cup datapoints]
  ELSE inputData

\* The data of the current dataset finishes loading.
LoadComplete ==
  /\ ~currentInputDataIsLoaded
  /\ loaded' = loaded \cup {currentDataset}
  /\ inputData' = [inputData EXCEPT
                     ![currentDataset] = BaseRecords(metadata.datasets[currentDataset])]
  /\ EditorReacts(metadata, currentDataset, loaded', inputData', primarySelectedId, FALSE)
  /\ UNCHANGED <<metadata, currentModels, currentDataset, layoutName,
                 primarySelectedId, referenceSelectedId, compareExamplesEnabled,
                 nextId, settingsVars, mounted, entry, isShiftPressed, indexCalls>>

(***************************************************************************)
(* The settings dialog (GlobalSettingsComponent).                          *)
(***************************************************************************)
NoStatus == [kind |-> "", n |-> 0]
NoUpdate == [models |-> {}, dataset |-> "", layoutName |-> "", open |-> FALSE]
\* The shared application state the dialog can reach.
SharedState == [metadata |-> metadata, currentModels |-> currentModels,
                currentDataset |-> currentDataset, layoutName |-> layoutName,
                inputData |-> inputData]

selectedModels == {m \in DOMAIN modelCheckboxValues : modelCheckboxValues[m]}
loadDatapointButtonsDisabled == pathForDatapoints = ""
newDatapoints == {r \in currentInputData : r.added}
saveDatapointButtonDisabled ==
  \/ pathForDatapoints = ""
  \/ Cardinality(newDatapoints) = 0
  \/ currentDataset # selectedDataset

\* renderBottomBar / renderButtons: the Submit button's disabled attribute.
noModelsSelected == Cardinality(selectedModels) = 0
datasetValid == isDatasetValidForModels(selectedDataset, selectedModels)
\* A faulty Submit guard that looks at the model set only.
submitDisabled_ModelsOnly == noModelsSelected
submitDisabled == noModelsSelected \/ ~datasetValid

\* A faulty re-seeding that checks the current models without clearing the
\* checkboxes an earlier session left set.
initializeLocalState_NoClear ==
  /\ modelCheckboxValues' =
       [m \in (DOMAIN metadata.models) \cup currentModels |->
          \/ m \in currentModels
          \/ (m \in DOMAIN modelCheckboxValues /\ modelCheckboxValues[m])]
  /\ selectedDataset' = currentDataset
  /\ selectedLayout' = layoutName

initializeLocalState ==
  /\ modelCheckboxValues' =
       [m \in (DOMAIN metadata.models) \cup currentModels |-> m \in currentModels]
  /\ selectedDataset' = currentDataset
  /\ selectedLayout' = layoutName

open ==
  /\ initializeLocalState
  /\ isOpen' = TRUE
  /\ numUpdates' = 0
  /\ atOpen' = SharedState
  /\ UNCHANGED <<appVars, editorVars, selectedTab, pathForDatapoints,
                 datapointsStatus, apiCalls, lastUpdate, callsIssued>>

close ==
  /\ isOpen' = FALSE
  /\ UNCHANGED <<appVars, editorVars, selectedDataset, selectedLayout,
                 modelCheckboxValues, selectedTab, pathForDatapoints,
                 datapointsStatus, apiCalls, lastUpdate, numUpdates, atOpen, callsIssued>>

\* submitSettings: one updateSettings call with the local selection.  The
\* call is recorded with the dialog's open flag as it is when it is made.
submitSettings ==
  /\ lastUpdate' = [models |-> selectedModels, dataset |-> selectedDataset,
                    layoutName |-> selectedLayout, open |-> isOpen]
  /\ numUpdates' = numUpdates + 1
  /\ atOpen' = atOpen
  /\ updateSettings(selectedModels, selectedDataset, selectedLayout)

\* A faulty Cancel that writes the local layout choice to the application.
cancel_KeepsLayout ==
  /\ isOpen
  /\ selectedTab' = "Models"
  /\ isOpen' = FALSE
  /\ layoutName' = selectedLayout
  /\ UNCHANGED <<metadata, currentModels, currentDataset, inputData, loaded,
                 primarySelectedId, referenceSelectedId,
                 compareExamplesEnabled, nextId, editorVars, selectedDataset,
                 selectedLayout, modelCheckboxValues, pathForDatapoints,
                 datapointsStatus, apiCalls, lastUpdate, numUpdates, atOpen,
                 callsIssued>>

\* renderButtons: the Cancel button.
cancel ==
  /\ isOpen
  /\ selectedTab' = "Models"
  /\ isOpen' = FALSE
  /\ UNCHANGED <<appVars, editorVars, selectedDataset, selectedLayout,
                 modelCheckboxValues, pathForDatapoints, datapointsStatus,
                 apiCalls, lastUpdate, numUpdates, atOpen, callsIssued>>

\* A faulty Submit that closes the dialog on the tab that was showing.
submit_KeepsTab ==
  /\ isOpen
  /\ ~submitDisabled
  /\ submitSettings
  /\ isOpen' = FALSE
  /\ UNCHANGED <<selectedDataset, selectedLayout, modelCheckboxValues,
                 selectedTab, pathForDatapoints, datapointsStatus, apiCalls,
                 callsIssued, mounted, entry, isShiftPressed, indexCalls>>

\* A faulty Submit that is not guarded by the disabled attribute.
submit_Unguarded ==
  /\ isOpen
  /\ selectedDataset \in DatasetNames
  /\ submitSettings
  /\ selectedTab' = "Models"
  /\ isOpen' = FALSE
  /\ UNCHANGED <<selectedDataset, selectedLayout, modelCheckboxValues,
                 pathForDatapoints, datapointsStatus, apiCalls, callsIssued,
                 mounted, entry, isShiftPressed, indexCalls>>

\* renderButtons: the Submit button, which a disabled attribute guards.
submit ==
  /\ isOpen
  /\ ~submitDisabled
  /\ submitSettings
  /\ selectedTab' = "Models"
  /\ isOpen' = FALSE
  /\ UNCHANGED <<selectedDataset, selectedLayout, modelCheckboxValues,
                 pathForDatapoints, datapointsStatus, apiCalls, callsIssued,
                 mounted, entry, isShiftPressed, indexCalls>>

\* renderTabs: a click on a tab.
clickTab(tab) ==
  /\ isOpen
  /\ selectedTab' = tab
  /\ UNCHANGED <<appVars, editorVars, isOpen, selectedDataset, selectedLayout,
                 modelCheckboxValues, pathForDatapoints, datapointsStatus,
                 apiCalls, lastUpdate, numUpdates, atOpen, callsIssued>>

\* nextPrevButton: Models -> Dataset; Dataset -> Models, Layout; Layout -> Dataset.
nextPrevButton(tab) ==
  /\ isOpen
  /\ \/ selectedTab = "Models" /\ tab = "Dataset"
     \/ selectedTab = "Dataset" /\ tab \in {"Models", "Layout"}
     \/ selectedTab = "Layout" /\ tab = "Dataset"
  /\ selectedTab' = tab
  /\ UNCHANGED <<appVars, editorVars, isOpen, selectedDataset, selectedLayout,
                 modelCheckboxValues, pathForDatapoints, datapointsStatus,
                 apiCalls, lastUpdate, numUpdates, atOpen, callsIssued>>

\* A faulty checkbox handler that never revisits the selected dataset.
change_KeepsDataset(name) ==
  /\ isOpen
  /\ selectedTab = "Models"
  /\ name \in DOMAIN modelCheckboxValues
  /\ modelCheckboxValues' =
       [modelCheckboxValues EXCEPT ![name] = ~modelCheckboxValues[name]]
  /\ selectedDataset' = selectedDataset
  /\ UNCHANGED <<appVars, editorVars, isOpen, selectedLayout, selectedTab,
                 pathForDatapoints, datapointsStatus, apiCalls, lastUpdate,
                 numUpdates, atOpen, callsIssued>>

\* renderModelsConfig: the change handler of a model's checkbox.
change(name) ==
  /\ isOpen
  /\ selectedTab = "Models"
  /\ name \in DOMAIN modelCheckboxValues
  /\ modelCheckboxValues' =
       [modelCheckboxValues EXCEPT ![name] = ~modelCheckboxValues[name]]
  /\ LET models2 == {m \in DOMAIN modelCheckboxValues' : modelCheckboxValues'[m]}
     IN selectedDataset' = IF ~isDatasetValidForModels(selectedDataset, models2)
                           THEN NONE_DS_DICT_KEY
                           ELSE selectedDataset
  /\ UNCHANGED <<appVars, editorVars, isOpen, selectedLayout, selectedTab,
                 pathForDatapoints, datapointsStatus, apiCalls, lastUpdate,
                 numUpdates, atOpen, callsIssued>>

\* renderDatasetConfig: the change handler of a dataset's radio button, which
\* is disabled for a dataset the selected models do not accept.
handleDatasetChange(name) ==
  /\ isOpen
  /\ selectedTab = "Dataset"
  /\ name \in DatasetNames
  /\ isDatasetValidForModels(name, selectedModels)
  /\ pathForDatapoints' = ""
  /\ datapointsStatus' = NoStatus
  /\ selectedDataset' = name
  /\ UNCHANGED <<appVars, editorVars, isOpen, selectedLayout, modelCheckboxValues,
                 selectedTab, apiCalls, lastUpdate, numUpdates, atOpen, callsIssued>>

\* renderLayoutConfig: the change handler of a layout's radio button.
layoutChange(name) ==
  /\ isOpen
  /\ selectedTab = "Layout"
  /\ selectedLayout' = name
  /\ UNCHANGED <<appVars, editorVars, isOpen, selectedDataset, modelCheckboxValues,
                 selectedTab, pathForDatapoints, datapointsStatus, apiCalls,
                 lastUpdate, numUpdates, atOpen, callsIssued>>

\* renderDatasetConfig: the path input.
updatePath(value) ==
  /\ isOpen
  /\ selectedTab = "Dataset"
  /\ pathForDatapoints' = value
  /\ UNCHANGED <<appVars, editorVars, isOpen, selectedDataset, selectedLayout,
                 modelCheckboxValues, selectedTab, datapointsStatus, apiCalls,
                 lastUpdate, numUpdates, atOpen, callsIssued>>

(***************************************************************************)
(* The dialog's three remote calls.  A click issues the call with the      *)
(* arguments as they are at the click; the code after the await runs when  *)
(* the call completes, against the state as it is then.                    *)
(***************************************************************************)
RemoveAt(seq, i) == [j \in 1..(Len(seq) - 1) |-> IF j < i THEN seq[j] ELSE seq[j + 1]]

\* A button of the Dataset tab calls the ApiService once and awaits it.
\* callsIssued counts the calls of a run, which the next-state relations cap.
CanCall == callsIssued < MaxCalls
IssueCall(kind, dataset) ==
  /\ isOpen
  /\ selectedTab = "Dataset"
  /\ callsIssued' = callsIssued + 1
  /\ apiCalls' = Append(apiCalls, [kind |-> kind, dataset |-> dataset,
                                   path |-> pathForDatapoints])
  /\ UNCHANGED <<appVars, editorVars, isOpen, selectedDataset, selectedLayout,
                 modelCheckboxValues, selectedTab, pathForDatapoints,
                 datapointsStatus, lastUpdate, numUpdates, atOpen>>

\* 'Save new datapoints'
save ==
  /\ ~saveDatapointButtonDisabled
  /\ IssueCall("save", currentDataset)

\* A faulty load that waits for the outstanding calls to complete.
load_InFlightGuard ==
  /\ ~loadDatapointButtonsDisabled
  /\ Len(apiCalls) = 0
  /\ IssueCall("load", selectedDataset)

\* 'Load additional datapoints'
load ==
  /\ ~loadDatapointButtonsDisabled
  /\ IssueCall("load", selectedDataset)

\* 'Create new dataset from path'
loadNewDataset ==
  /\ ~loadDatapointButtonsDisabled
  /\ IssueCall("create", selectedDataset)

\* apiService.saveDatapoints returned the path it wrote.
saveDone(i) ==
  /\ i \in 1..Len(apiCalls)
  /\ apiCalls[i].kind = "save"
  /\ apiCalls' = RemoveAt(apiCalls, i)
  /\ datapointsStatus' = [kind |-> "Saved", n |-> Cardinality(newDatapoints)]
  /\ UNCHANGED <<appVars, editorVars, isOpen, selectedDataset, selectedLayout,
                 modelCheckboxValues, selectedTab, pathForDatapoints,
                 lastUpdate, numUpdates, atOpen, callsIssued>>

\* The datapoints the server has persisted for a dataset: copies of its
\* records, with an id of their own.
PersistedDatapoints(dataset) ==
  IF dataset \in DatasetNames
  THEN {[id |-> FreshIds[nextId + 1], added |-> TRUE, parentId |-> NoId,
         data |-> r.data] : r \in BaseRecords(metadata.datasets[dataset])}
  ELSE {}

\* apiService.loadDatapoints returned null, an empty list or datapoints.
loadDone(i) ==
  /\ i \in 1..Len(apiCalls)
  /\ apiCalls[i].kind = "load"
  /\ apiCalls' = RemoveAt(apiCalls, i)
  /\ \E datapoints \in {{}, PersistedDatapoints(apiCalls[i].dataset)} :
       IF Cardinality(datapoints) = 0
       THEN /\ datapointsStatus' = [kind |-> "NoPersisted", n |-> 0]
            /\ UNCHANGED <<appVars, editorVars>>
       ELSE /\ inputData' = commitNewDatapoints(datapoints)
            /\ nextId' = nextId + 1
            /\ datapointsStatus' = [kind |-> "Loaded", n |-> Cardinality(datapoints)]
            /\ EditorReacts(metadata, currentDataset, loaded, inputData',
                            primarySelectedId, FALSE)
            /\ UNCHANGED <<metadata, currentModels, currentDataset, layoutName,
                           loaded, primarySelectedId, referenceSelectedId,
                           compareExamplesEnabled, mounted, entry, isShiftPressed,
                           indexCalls>>
  /\ UNCHANGED <<isOpen, selectedDataset, selectedLayout, modelCheckboxValues,
                 selectedTab, pathForDatapoints, lastUpdate, numUpdates, atOpen, callsIssued>>

\* The datasets created so far, and the metadata after the server created
\* one more from `dataset`: the new dataset has the specification of the one
\* it was created from and is listed by the models that list that one.
NumCreated == Cardinality(DatasetNames \ BaseDatasets)
CanCreate(dataset) == dataset \in DatasetNames
CreatedName == NewNames[NumCreated + 1]
CreatedMetadata(dataset) ==
  [datasets |-> [d \in DatasetNames \cup {CreatedName} |->
                   IF d = CreatedName THEN metadata.datasets[dataset]
                                      ELSE metadata.datasets[d]],
   models |-> [m \in DOMAIN metadata.models |->
                 IF dataset \in metadata.models[m]
                 THEN metadata.models[m] \cup {CreatedName}
                 ELSE metadata.models[m]]]

\* apiService.createDataset returned null or [metadata, name].
loadNewDatasetDone(i) ==
  /\ i \in 1..Len(apiCalls)
  /\ apiCalls[i].kind = "create"
  /\ apiCalls' = RemoveAt(apiCalls, i)
  /\ \/ /\ datapointsStatus' = [kind |-> "Unable", n |-> 0]
        /\ UNCHANGED <<metadata, selectedDataset>>
     \/ /\ CanCreate(apiCalls[i].dataset)
        /\ metadata' = CreatedMetadata(apiCalls[i].dataset)
        /\ datapointsStatus' = [kind |-> "Added", n |-> 0]
        /\ selectedDataset' = CreatedName
  /\ UNCHANGED <<currentModels, currentDataset, layoutName, inputData, loaded,
                 primarySelectedId, referenceSelectedId, compareExamplesEnabled,
                 nextId, editorVars, isOpen, selectedLayout, modelCheckboxValues,
                 selectedTab, pathForDatapoints, lastUpdate, numUpdates, atOpen, callsIssued>>

(***************************************************************************)
(* Initial state: the application has started with model m1 on dataset     *)
(* dsA, whose data has been loaded; both components are constructed, the  *)
(* dialog is closed and the editor has not rendered yet.                   *)
(***************************************************************************)
\* Every variable but entry: the services as the server seeds them, the
\* dialog and the editor as their field initialisers leave them.
InitOthers ==
  /\ metadata = InitMetadata
  /\ currentModels = {"m1"}
  /\ currentDataset = "dsA"
  /\ layoutName = "default"
  /\ inputData = [d \in AllDatasets |-> IF d = "dsA" THEN BaseRecords(d) ELSE {}]
  /\ loaded = {"dsA"}
  /\ primarySelectedId = NoId
  /\ referenceSelectedId = NoId
  /\ compareExamplesEnabled = FALSE
  /\ nextId = 0
  /\ isOpen = FALSE
  /\ selectedDataset = ""
  /\ selectedLayout = ""
  /\ modelCheckboxValues = [m \in {} |-> FALSE]
  /\ selectedTab = "Models"
  /\ pathForDatapoints = ""
  /\ datapointsStatus = NoStatus
  /\ apiCalls = <<>>
  /\ lastUpdate = NoUpdate
  /\ numUpdates = 0
  /\ atOpen = SharedState
  /\ callsIssued = 0
  /\ mounted = FALSE
  /\ editedData = EmptyData
  /\ datapointEdited = FALSE
  /\ isShiftPressed = FALSE
  /\ whenPending = FALSE
  /\ lastReset = NoReset
  /\ indexCalls = <<>>

Init == InitOthers /\ entry = NoEntry

\* The settings dialog with the shared state behind it: its selection flow,
\* 'Load additional datapoints' and 'Create new dataset from path'.
SettingsNext ==
  \/ open
  \/ close
  \/ cancel
  \/ submit
  \/ \E tab \in TabNames : clickTab(tab)
  \/ \E tab \in TabNames : nextPrevButton(tab)
  \/ \E name \in ModelNames : change(name)
  \/ \E name \in AllDatasets : handleDatasetChange(name)
  \/ \E name \in LayoutNames : layoutChange(name)
  \/ \E value \in Paths : updatePath(value)
  \/ CanCall /\ load
  \/ CanCall /\ loadNewDataset
  \/ \E i \in 1..MaxCalls : loadDone(i)
  \/ \E i \in 1..MaxCalls : loadNewDatasetDone(i)

SettingsSpec == Init /\ [][SettingsNext]_vars

(***************************************************************************)
(* The datapoint editor (DatapointEditorModule).                           *)
(***************************************************************************)
\* What the user can type or pick in a field.
RawInputs == {<<>>, <<"a">>}

\* GroupService: the categorical features are the category labels, the
\* numerical features the scalars.
categoricalFeatureNames(spec) == {k \in DOMAIN spec : spec[k].kind = "CategoryLabel"}
numericalFeatureNames(spec) == {k \in DOMAIN spec : spec[k].kind = "Scalar"}

\* String.prototype.split and Array.prototype.join.
StartsWithAt(s, sep, i) ==
  /\ i + Len(sep) - 1 <= Len(s)
  /\ \A j \in 1..Len(sep) : s[i + j - 1] = sep[j]
RECURSIVE SplitFrom(_, _, _, _)
SplitFrom(s, sep, i, cur) ==
  IF i > Len(s) THEN <<cur>>
  ELSE IF StartsWithAt(s, sep, i)
       THEN <<cur>> \o SplitFrom(s, sep, i + Len(sep), <<>>)
       ELSE SplitFrom(s, sep, i + 1, Append(cur, s[i]))
split(s, sep) ==
  IF Len(sep) = 0 THEN [i \in 1..Len(s) |-> <<s[i]>>] ELSE SplitFrom(s, sep, 1, <<>>)
RECURSIVE join(_, _)
join(list, sep) ==
  IF Len(list) = 0 THEN <<>>
  ELSE IF Len(list) = 1 THEN list[1]
  ELSE list[1] \o sep \o join(Tail(list), sep)

\* A faulty choice of input that looks at the list kinds before the vocab.
renderInput_KindFirst(key, spec) ==
  LET fieldSpec == spec[key]
  IN IF fieldSpec.kind \in {"Tokens", "SequenceTags"} THEN "renderTokensInput"
     ELSE IF fieldSpec.kind = "SparseMultilabel" THEN "renderSparseMultilabelInput"
     ELSE IF fieldSpec.hasVocab THEN "renderCategoricalInput"
     ELSE IF key \in categoricalFeatureNames(spec) THEN "renderShortformInput"
     ELSE IF key \in numericalFeatureNames(spec) THEN "renderNumericInput"
     ELSE IF fieldSpec.kind = "SpanLabels" THEN "renderSpanLabelsNonEditable"
     ELSE IF fieldSpec.kind = "EdgeLabels" THEN "renderEdgeLabelsNonEditable"
     ELSE "renderFreeformInput"

\* renderEntry: the input chosen for a field, first match wins.
renderInput(key, spec) ==
  LET fieldSpec == spec[key]
  IN IF fieldSpec.hasVocab THEN "renderCategoricalInput"
     ELSE IF key \in categoricalFeatureNames(spec) THEN "renderShortformInput"
     ELSE IF key \in numericalFeatureNames(spec) THEN "renderNumericInput"
     ELSE IF fieldSpec.kind \in {"Tokens", "SequenceTags"} THEN "renderTokensInput"
     ELSE IF fieldSpec.kind = "SpanLabels" THEN "renderSpanLabelsNonEditable"
     ELSE IF fieldSpec.kind = "EdgeLabels" THEN "renderEdgeLabelsNonEditable"
     ELSE IF fieldSpec.kind = "SparseMultilabel" THEN "renderSparseMultilabelInput"
     ELSE "renderFreeformInput"

\* Unary plus on the strings of this model, which hold no digit: blank
\* strings give 0, the others NaN.
ToNumber(raw) == IF \A i \in 1..Len(raw) : raw[i] = " " THEN Num(0) ELSE NaN

\* A faulty converter that splits the empty string too, and so makes ['']
\* of it.
converterFn_SplitsEmpty(input, fieldSpec, raw) ==
  IF input = "renderNumericInput" THEN ToNumber(raw)
  ELSE IF input = "renderTokensInput" THEN Lst(split(raw, <<" ">>))
  ELSE IF input = "renderSparseMultilabelInput"
       THEN Lst(split(raw, IF fieldSpec.hasSeparator THEN fieldSpec.separator
                                                     ELSE <<",">>))
  ELSE Str(raw)

\* A faulty converter that splits sparse multilabels at the comma whatever
\* separator the field gives.
converterFn_CommaOnly(input, fieldSpec, raw) ==
  IF input = "renderNumericInput" THEN ToNumber(raw)
  ELSE IF input = "renderTokensInput"
       THEN (IF Len(raw) # 0 THEN Lst(split(raw, <<" ">>)) ELSE Lst(<<>>))
  ELSE IF input = "renderSparseMultilabelInput"
       THEN (IF Len(raw) # 0 THEN Lst(split(raw, <<",">>)) ELSE Lst(<<>>))
  ELSE Str(raw)

\* The converter each input hands to handleInputChange.
converterFn(input, fieldSpec, raw) ==
  IF input = "renderNumericInput" THEN ToNumber(raw)
  ELSE IF input = "renderTokensInput"
       THEN (IF Len(raw) # 0 THEN Lst(split(raw, <<" ">>)) ELSE Lst(<<>>))
  ELSE IF input = "renderSparseMultilabelInput"
       THEN LET separator == IF fieldSpec.hasSeparator THEN fieldSpec.separator
                                                       ELSE <<",">>
            IN IF Len(raw) # 0 THEN Lst(split(raw, separator)) ELSE Lst(<<>>)
  ELSE Str(raw)

\* The values the control of an input can send.
InputValues(input, fieldSpec) ==
  IF input = "renderCategoricalInput" THEN {<<>>} \cup fieldSpec.vocab
  ELSE IF input \in {"renderSpanLabelsNonEditable", "renderEdgeLabelsNonEditable"}
       THEN {}
  ELSE RawInputs

(***************************************************************************)
(* renderEntry on its own: one field, given with its type descriptor and   *)
(* its value, is rendered, and its input then sends one input event.       *)
(***************************************************************************)
MaxLen == 2
Chars == {"a", " ", ",", ";"}
Strings == {<<>>} \cup {<<c>> : c \in Chars}
Lists == UNION {[1..n -> Strings] : n \in 0..MaxLen}
Kinds == {"TextSegment", "CategoryLabel", "Scalar", "Tokens", "SequenceTags",
          "SpanLabels", "EdgeLabels", "SparseMultilabel"}
ListKinds == {"Tokens", "SequenceTags", "SpanLabels", "EdgeLabels", "SparseMultilabel"}
Vocabs == {{<<"a">>}}
Separators == {<<>>, <<";">>, <<"a", "a">>}
FieldSpecs ==
  {FieldSpec(k) : k \in Kinds} \cup
  {WithVocab(k, v) : k \in Kinds, v \in Vocabs} \cup
  {[FieldSpec(k) EXCEPT !.hasSeparator = TRUE, !.separator = sep] :
     k \in Kinds, sep \in Separators} \cup
  {[WithVocab(k, v) EXCEPT !.hasSeparator = TRUE, !.separator = sep] :
     k \in Kinds, v \in Vocabs, sep \in Separators}
FieldValues(fieldSpec) ==
  IF fieldSpec.kind \in ListKinds THEN {Lst(l) : l \in Lists}
                                  ELSE {Str(str) : str \in Strings}
Entries ==
  UNION {{[NoEntry EXCEPT !.stage = "given", !.spec = fieldSpec, !.value = value] :
            value \in FieldValues(fieldSpec)} : fieldSpec \in FieldSpecs}

\* The string template literals and .value make of a value: a string is
\* itself, an array its elements joined with commas.
ToString(value) == IF value.t = "list" THEN join(value.l, <<",">>) ELSE value.s

\* The string an input shows for the value.
valueAsString(input, fieldSpec, value) ==
  IF input = "renderCategoricalInput"
  THEN (IF value.t = "str" /\ value.s \in fieldSpec.vocab THEN value.s ELSE <<>>)
  ELSE IF input = "renderTokensInput" THEN join(value.l, <<" ">>)
  ELSE IF input = "renderSparseMultilabelInput"
       THEN join(value.l, IF fieldSpec.hasSeparator THEN fieldSpec.separator
                                                    ELSE <<",">>)
  ELSE IF input \in {"renderSpanLabelsNonEditable", "renderEdgeLabelsNonEditable"}
       THEN <<>>
  ELSE ToString(value)

RenderInit == InitOthers /\ entry \in Entries

\* renderEntry for the field given.
renderEntry ==
  /\ entry.stage = "given"
  /\ LET input == renderInput("field", [k \in {"field"} |-> entry.spec])
     IN entry' = [entry EXCEPT !.stage = "rendered", !.input = input,
                    !.shown = valueAsString(input, entry.spec, entry.value)]
  /\ UNCHANGED <<appVars, settingsVars, mounted, editedData, datapointEdited,
                 isShiftPressed, whenPending, lastReset, indexCalls>>

\* An input event of the rendered input: its converter is applied to the
\* string of the control, which is the string shown or one the user typed.
inputEvent(raw) ==
  /\ entry.stage = "rendered"
  /\ InputValues(entry.input, entry.spec) # {}
  /\ raw \in InputValues(entry.input, entry.spec) \cup {entry.shown}
  /\ entry' = [entry EXCEPT !.stage = "parsed", !.raw = raw,
                 !.parsed = converterFn(entry.input, entry.spec, raw)]
  /\ UNCHANGED <<appVars, settingsVars, mounted, editedData, datapointEdited,
                 isShiftPressed, whenPending, lastReset, indexCalls>>

RenderNext ==
  \/ renderEntry
  \/ \E raw \in InputValues(entry.input, entry.spec) \cup {entry.shown} :
       inputEvent(raw)
RenderSpec == RenderInit /\ [][RenderNext]_vars

\* A faulty check that counts every blank field, required or not.
allRequiredInputsFilledOut_AnyBlank ==
  \A key \in DOMAIN editedData : editedData[key] # Str(<<>>)

\* allRequiredInputsFilledOut: the loop over the draft's keys, which stops at
\* the first required key that holds ''.
RECURSIVE RequiredLoop(_)
RequiredLoop(keys) ==
  IF keys = {} THEN TRUE
  ELSE LET key == CHOOSE k \in keys : TRUE
       IN IF key \in currentModelRequiredInputSpecKeys /\ editedData[key] = Str(<<>>)
          THEN FALSE
          ELSE RequiredLoop(keys \ {key})
allRequiredInputsFilledOut == RequiredLoop(DOMAIN editedData)

\* renderButtons: which buttons are enabled.
\* A faulty enabling of the Add button that looks at the modified flag only.
makeEnabled_EditedOnly == datapointEdited
makeEnabled == datapointEdited /\ allRequiredInputsFilledOut
compareEnabled == makeEnabled /\ ~compareExamplesEnabled
resetEnabled == datapointEdited
clearEnabled == primarySelectedInputData # NoRecord

\* firstUpdated: both reactions are registered and run at once, the one on
\* the dataset first, the one on the selection second.
firstUpdated ==
  /\ ~mounted
  /\ mounted' = TRUE
  /\ whenPending' = ~currentInputDataIsLoaded
  /\ editedData' = resetEditedData(primarySelectedInputData, currentDatasetSpec)
  /\ datapointEdited' = FALSE
  /\ lastReset' = ResetNote(primarySelectedInputData, currentDatasetSpec)
  /\ UNCHANGED <<appVars, settingsVars, entry, isShiftPressed, indexCalls>>

\* handleInputChange for the field `key`, which renderEditText renders for
\* every key of the current dataset's specification.
handleInputChange(key, raw) ==
  /\ mounted
  /\ key \in DOMAIN currentDatasetSpec
  /\ LET input == renderInput(key, currentDatasetSpec)
         fieldSpec == currentDatasetSpec[key]
         value == converterFn(input, fieldSpec, raw)
     IN /\ raw \in InputValues(input, fieldSpec)
        /\ datapointEdited' = TRUE
        /\ editedData' = [k \in (DOMAIN editedData) \cup {key} |->
                            IF k = key THEN value ELSE editedData[k]]
  /\ lastReset' = NoReset
  /\ UNCHANGED <<appVars, settingsVars, mounted, entry, isShiftPressed, whenPending,
                 indexCalls>>

\* The indexing calls of a run, which the next-state relations cap.
CanIndex == nextId + Len(indexCalls) < MaxIndexing

\* onClickNew up to its await: the draft goes to appState.indexDatapoints,
\* with the primary selection as its parent.
onClickNewCall(compare) ==
  indexCalls' = Append(indexCalls, [data |-> editedData,
                                    parentId |-> primarySelectedId,
                                    compare |-> compare])

\* The Add button.
onClickNew ==
  /\ mounted
  /\ makeEnabled
  /\ onClickNewCall(FALSE)
  /\ lastReset' = lastReset
  /\ UNCHANGED <<appVars, settingsVars, mounted, entry, editedData, datapointEdited,
                 isShiftPressed, whenPending>>

\* The Add and compare button.
onClickCompare ==
  /\ mounted
  /\ compareEnabled
  /\ onClickNewCall(TRUE)
  /\ lastReset' = lastReset
  /\ UNCHANGED <<appVars, settingsVars, mounted, entry, editedData, datapointEdited,
                 isShiftPressed, whenPending>>

\* onKeyDown in a field: Shift is remembered; Enter without Shift clicks the
\* Add button, which does nothing while the button is disabled.
onKeyDown(key) ==
  /\ mounted
  /\ isShiftPressed' = (IF key = "Shift" THEN TRUE ELSE isShiftPressed)
  /\ IF key = "Enter" /\ ~isShiftPressed /\ makeEnabled
     THEN onClickNewCall(FALSE)
     ELSE UNCHANGED indexCalls
  /\ lastReset' = lastReset
  /\ UNCHANGED <<appVars, settingsVars, mounted, entry, editedData, datapointEdited,
                 whenPending>>

onKeyUp(key) ==
  /\ mounted
  /\ isShiftPressed' = (IF key = "Shift" THEN FALSE ELSE isShiftPressed)
  /\ lastReset' = lastReset
  /\ UNCHANGED <<appVars, settingsVars, mounted, entry, editedData, datapointEdited,
                 whenPending, indexCalls>>

\* A faulty completion that reads the parent after the await, from the
\* selection as it is by then.
indexDone_LateParent(i) ==
  /\ i \in 1..Len(indexCalls)
  /\ LET call == indexCalls[i]
         datum == [id |-> FreshIds[nextId + 1], data |-> call.data,
                   added |-> TRUE, parentId |-> call.parentId]
     IN /\ inputData' = commitNewDatapoints({datum})
        /\ nextId' = nextId + 1
        /\ primarySelectedId' = datum.id
        /\ compareExamplesEnabled' = (call.compare \/ compareExamplesEnabled)
        /\ referenceSelectedId' =
             IF call.compare THEN primarySelectedId ELSE referenceSelectedId
        /\ EditorReacts(metadata, currentDataset, loaded, inputData', datum.id, FALSE)
  /\ indexCalls' = RemoveAt(indexCalls, i)
  /\ UNCHANGED <<metadata, currentModels, currentDataset, layoutName, loaded,
                 settingsVars, mounted, entry, isShiftPressed>>

\* appState.indexDatapoints returned the datum with its id: the rest of
\* onClickNew and, for Add and compare, of onClickCompare.
indexDone(i) ==
  /\ i \in 1..Len(indexCalls)
  /\ LET call == indexCalls[i]
         datum == [id |-> FreshIds[nextId + 1], data |-> call.data,
                   added |-> TRUE, parentId |-> call.parentId]
     IN /\ inputData' = commitNewDatapoints({datum})
        /\ nextId' = nextId + 1
        /\ primarySelectedId' = datum.id
        /\ compareExamplesEnabled' = (call.compare \/ compareExamplesEnabled)
        /\ referenceSelectedId' =
             IF call.compare THEN call.parentId ELSE referenceSelectedId
        /\ EditorReacts(metadata, currentDataset, loaded, inputData', datum.id, FALSE)
  /\ indexCalls' = RemoveAt(indexCalls, i)
  /\ UNCHANGED <<metadata, currentModels, currentDataset, layoutName, loaded,
                 settingsVars, mounted, entry, isShiftPressed>>

\* The Reset button: primarySelectedInputData!.data is a TypeError when
\* nothing is selected, and the handler ends there.
onClickReset ==
  /\ mounted
  /\ resetEnabled
  /\ IF primarySelectedInputData = NoRecord
     THEN UNCHANGED <<editedData, datapointEdited, lastReset>>
     ELSE /\ editedData' = resetEditedData(primarySelectedInputData, currentDatasetSpec)
          /\ datapointEdited' = FALSE
          /\ lastReset' = ResetNote(primarySelectedInputData, currentDatasetSpec)
  /\ UNCHANGED <<appVars, settingsVars, mounted, entry, isShiftPressed, whenPending,
                 indexCalls>>

\* The Clear button.
onClickClear ==
  /\ mounted
  /\ clearEnabled
  /\ primarySelectedId' = NoId
  /\ EditorReacts(metadata, currentDataset, loaded, inputData, NoId, FALSE)
  /\ UNCHANGED <<metadata, currentModels, currentDataset, layoutName, inputData,
                 loaded, referenceSelectedId, compareExamplesEnabled, nextId,
                 settingsVars, mounted, entry, isShiftPressed, indexCalls>>

\* Another module selects a datapoint of the current dataset.  The service
\* takes the id as it is given: it may name a record of the dataset whose
\* data has not finished loading.
selectIds(id) ==
  /\ id \in {r.id : r \in currentInputData} \cup
            (IF currentInputDataIsLoaded THEN {}
             ELSE {r.id : r \in BaseRecords(metadata.datasets[currentDataset])})
  /\ primarySelectedId' = id
  /\ EditorReacts(metadata, currentDataset, loaded, inputData, id, FALSE)
  /\ UNCHANGED <<metadata, currentModels, currentDataset, layoutName, inputData,
                 loaded, referenceSelectedId, compareExamplesEnabled, nextId,
                 settingsVars, mounted, entry, isShiftPressed, indexCalls>>

\* The settings dialog was submitted with a selection its Submit button
\* accepts (the dialog itself is SettingsSpec's).
settingsSubmitted(models, dataset) ==
  /\ models # {}
  /\ dataset \in DatasetNames
  /\ isDatasetValidForModels(dataset, models)
  /\ models # currentModels \/ dataset # currentDataset
  /\ updateSettings(models, dataset, layoutName)
  /\ UNCHANGED <<settingsVars, mounted, entry, isShiftPressed, indexCalls>>

\* The datapoint editor with the shared state behind it: its fields, its
\* four buttons and the reactions to the selection and the dataset.
EditorNext ==
  \/ firstUpdated
  \/ \E key \in {"text", "tokens"}, raw \in RawInputs :
       handleInputChange(key, raw)
  \/ CanIndex /\ onClickNew
  \/ CanIndex /\ onClickCompare
  \/ \E i \in 1..MaxIndexing : indexDone(i)
  \/ onClickReset
  \/ onClickClear
  \/ \E id \in {"a1", "b1"} \cup {FreshIds[i] : i \in 1..Len(FreshIds)} : selectIds(id)
  \/ \E models \in {{m} : m \in ModelNames}, dataset \in BaseDatasets :
       settingsSubmitted(models, dataset)
  \/ LoadComplete

EditorSpec == Init /\ [][EditorNext]_vars

\* The datapoint editor's keyboard: typing in the field text, Shift and
\* Enter, and the Add they can trigger.
EditorKeysNext ==
  \/ firstUpdated
  \/ \E raw \in RawInputs : handleInputChange("text", raw)
  \/ CanIndex /\ onClickNew
  \/ \E key \in {"Shift", "Enter"} : (key = "Enter" => CanIndex) /\ onKeyDown(key)
  \/ \E key \in {"Shift", "Enter"} : onKeyUp(key)
  \/ \E i \in 1..MaxIndexing : indexDone(i)
  \/ \E id \in {"a1", "b1"} \cup {FreshIds[i] : i \in 1..Len(FreshIds)} : selectIds(id)
  \/ \E models \in {{m} : m \in ModelNames}, dataset \in BaseDatasets :
       settingsSubmitted(models, dataset)
  \/ LoadComplete

EditorKeysSpec == Init /\ [][EditorKeysNext]_vars

\* The asynchronous actions of both modules side by side: the three buttons
\* of the Dataset tab and the Add button, each clicked while calls are
\* outstanding, and the completions in any order.
CanAwait == callsIssued + nextId + Len(indexCalls) < MaxAsync
AsyncNext ==
  \/ open
  \/ \E tab \in {"Dataset"} : clickTab(tab)
  \/ \E name \in BaseDatasets : handleDatasetChange(name)
  \/ \E value \in {"p"} : updatePath(value)
  \/ CanAwait /\ save
  \/ CanAwait /\ load
  \/ CanAwait /\ loadNewDataset
  \/ \E i \in 1..MaxAsync : saveDone(i)
  \/ \E i \in 1..MaxAsync : loadDone(i)
  \/ \E i \in 1..MaxAsync : loadNewDatasetDone(i)
  \/ firstUpdated
  \/ \E raw \in {<<"a">>} : handleInputChange("text", raw)
  \/ CanAwait /\ onClickNew
  \/ \E i \in 1..MaxAsync : indexDone(i)

AsyncSpec == Init /\ [][AsyncNext]_vars

(***************************************************************************)
(* Properties of the settings dialog, checked under SettingsSpec.          *)
(***************************************************************************)

\* C2: every settingsService.updateSettings call the dialog makes carries a
\* non-empty model set and a dataset that isDatasetValidForModels accepts
\* for that model set.
C2_UpdateCarriesValidSelection ==
  lastUpdate # NoUpdate =>
    /\ lastUpdate.models # {}
    /\ \A m \in lastUpdate.models : lastUpdate.dataset \in metadata.models[m]
\* A submit has pushed a selection of two models.
C2_Witness == numUpdates = 1 /\ lastUpdate.models = {"m1", "m2"}

\* C3: the Submit button is disabled exactly when no model checkbox is set
\* or some selected model does not list the selected dataset.
C3_SubmitDisabledIff ==
  LET chosen == {m \in DOMAIN modelCheckboxValues : modelCheckboxValues[m] = TRUE}
  IN submitDisabled <=>
       (chosen = {} \/ \E m \in chosen : selectedDataset \notin metadata.models[m])
\* The dialog is open with a non-empty, compatible selection that differs
\* from the application's, and Submit is enabled.
C3_Witness ==
  /\ isOpen
  /\ selectedModels = {"m2"}
  /\ selectedDataset = "dsB"
  /\ currentDataset = "dsA"
  /\ ~submitDisabled

C5_SessionWithoutSubmitLeavesSharedState ==
  [][((cancel \/ close) /\ numUpdates = 0) => SharedState' = atOpen]_vars
\* C5, amended: a session that ends in cancel() or close() with no submit
\* since open() leaves the application's current models, current dataset
\* and layout name as they were when open() was called, and no step other
\* than submit changes any of the three.
C5_SessionWithoutSubmitLeavesSelection ==
  /\ [][((cancel \/ close) /\ numUpdates = 0) =>
          /\ currentModels' = atOpen.currentModels
          /\ currentDataset' = atOpen.currentDataset
          /\ layoutName' = atOpen.layoutName]_vars
  /\ [][(\/ currentModels' # currentModels
         \/ currentDataset' # currentDataset
         \/ layoutName' # layoutName) => submit]_vars
\* A session was abandoned: the dialog is closed, nothing was submitted
\* since open(), the local selection differs from the application's in
\* models, dataset and layout, and a dataset created during the session has
\* reached the application's metadata.
C5_Witness ==
  /\ ~isOpen
  /\ numUpdates = 0
  /\ lastUpdate = NoUpdate
  /\ DOMAIN modelCheckboxValues # {}
  /\ selectedModels # currentModels
  /\ selectedDataset # currentDataset
  /\ selectedLayout # layoutName
  /\ metadata # atOpen.metadata
  /\ currentModels = atOpen.currentModels

\* C6: after open() the local model set, dataset and layout are the
\* application's and the dialog is open.
C6_OpenReseeds ==
  [][open => /\ selectedModels' = currentModels'
             /\ selectedDataset' = currentDataset'
             /\ selectedLayout' = layoutName'
             /\ isOpen']_vars
\* The dialog is open on the application's selection after an earlier
\* session changed the metadata (a created dataset, which createDataset's
\* completion had made the local selection).
C6_Witness ==
  /\ isOpen
  /\ DatasetNames # BaseDatasets
  /\ datapointsStatus.kind = "Added"
  /\ selectedModels = currentModels
  /\ selectedDataset = currentDataset
  /\ selectedLayout = layoutName

\* C7: submit makes one updateSettings call, with the local model set,
\* dataset and layout, while the dialog is still open, and ends on the
\* Models tab with the dialog closed; cancel makes no call and ends the same
\* way; and no step taken while the dialog is closed changes the tab, so the
\* next open() shows Models.
C7_SubmitAndCancel ==
  /\ [][submit => /\ numUpdates' = numUpdates + 1
                  /\ lastUpdate'.models = selectedModels
                  /\ lastUpdate'.dataset = selectedDataset
                  /\ lastUpdate'.layoutName = selectedLayout
                  /\ lastUpdate'.open
                  /\ selectedTab' = "Models"
                  /\ ~isOpen']_vars
  /\ [][cancel => /\ numUpdates' = numUpdates
                  /\ lastUpdate' = lastUpdate
                  /\ SharedState' = SharedState
                  /\ selectedTab' = "Models"
                  /\ ~isOpen']_vars
  /\ [][~isOpen => selectedTab' = selectedTab]_vars
\* A submit made with the Layout tab showing has closed the dialog on the
\* Models tab.
C7_Witness ==
  /\ ~isOpen
  /\ numUpdates = 1
  /\ selectedTab = "Models"
  /\ lastUpdate.layoutName = "simple"
  /\ layoutName = "simple"

\* C19: while the dialog is open, if the models and the dataset it was
\* seeded with were compatible, the locally selected dataset is "none" or
\* every locally selected model lists it.
C19_LocalDatasetNoneOrCompatible ==
  ( /\ isOpen
    /\ \A m \in atOpen.currentModels :
         atOpen.currentDataset \in atOpen.metadata.models[m] )
  => \/ selectedDataset = NONE_DS_DICT_KEY
     \/ \A m \in selectedModels : selectedDataset \in metadata.models[m]

(***************************************************************************)
(* Properties of the datapoint editor, checked under EditorSpec; C10, which *)
(* is about the keyboard, under EditorKeysSpec.                            *)
(***************************************************************************)

\* C1: in every state of the mounted editor the key set of the draft
\* (editedData) equals the key set of the current dataset's field
\* specification.
C1_DraftKeysEqualSpecKeys ==
  mounted => DOMAIN editedData = DOMAIN currentDatasetSpec

\* C8: after resetEditedData(null) every field of the draft holds the
\* dataset's default value for it, after resetEditedData(record) every field
\* holds record's value for it, and in both cases the modified flag is false
\* and the draft's key set is the key set of the field specification.
C8_ResetPostcondition ==
  /\ lastReset.kind = "null" =>
       /\ \A key \in DOMAIN editedData :
            /\ key \in DOMAIN lastReset.spec
            /\ editedData[key] = defaultValueByField(key, lastReset.spec)
       /\ ~datapointEdited
       /\ DOMAIN editedData = DOMAIN lastReset.spec
  /\ lastReset.kind = "record" =>
       /\ \A key \in DOMAIN editedData :
            /\ key \in DOMAIN lastReset.data
            /\ editedData[key] = lastReset.data[key]
       /\ ~datapointEdited
       /\ DOMAIN editedData = DOMAIN lastReset.spec

\* C9: allRequiredInputsFilledOut is false exactly when some field the
\* current models require holds '' in the draft, in every state, so after
\* every edit and every change of the models; it is true when no field is
\* required.
C9_AllRequiredIff ==
  /\ ~allRequiredInputsFilledOut <=>
       \E key \in currentModelRequiredInputSpecKeys :
         key \in DOMAIN editedData /\ editedData[key] = Str(<<>>)
  /\ currentModelRequiredInputSpecKeys = {} => allRequiredInputsFilledOut
\* An edit has blanked a field the current model requires.
C9_Witness ==
  /\ mounted
  /\ datapointEdited
  /\ "text" \in currentModelRequiredInputSpecKeys
  /\ editedData["text"] = Str(<<>>)
  /\ ~allRequiredInputsFilledOut

\* C10: a step hands a draft to indexDatapoints (the Add action, by button
\* or by Enter) only in a state where the draft is modified and
\* allRequiredInputsFilledOut is true; in any other state a click on Add and
\* a key press in a field leave the pending calls and the records alone.
C10_AddOnlyWhenEnabled ==
  /\ [][Len(indexCalls') > Len(indexCalls) =>
          (datapointEdited /\ allRequiredInputsFilledOut)]_vars
  /\ [][(/\ ~(datapointEdited /\ allRequiredInputsFilledOut)
         /\ (onClickNew \/ \E key \in {"Shift", "Enter"} : onKeyDown(key))) =>
          UNCHANGED <<indexCalls, inputData>>]_vars
\* An Add is in flight whose draft blanks no required field while the
\* current model requires one.
C10_Witness ==
  /\ Len(indexCalls) = 1
  /\ ~indexCalls[1].compare
  /\ currentModelRequiredInputSpecKeys = {"text"}
  /\ indexCalls[1].data["text"] # Str(<<>>)

\* C11: a step that hands a draft to indexDatapoints runs with a record
\* primary-selected and gives the new record that record's id as its parent,
\* and no record without a parent id is committed or selected.
C11_AddHasParent ==
  /\ [][Len(indexCalls') > Len(indexCalls) =>
          /\ primarySelectedId # NoId
          /\ indexCalls'[Len(indexCalls')].parentId = primarySelectedId]_vars
  /\ [][\A ds \in DOMAIN inputData :
          \A r \in inputData'[ds] \ inputData[ds] :
            r.added => (r.parentId # NoId /\ primarySelectedId' = r.id)]_vars

\* C12: Add and compare is taken only when Add is enabled and comparison
\* mode is off, and records the record primary-selected at the click as the
\* parent; when its indexing call completes, comparison mode is on, the
\* primary selection is the new record and the secondary selection is that
\* parent, whatever the selection has become in between.
C12_CompareSelectsParent ==
  /\ [][(/\ Len(indexCalls') > Len(indexCalls)
         /\ indexCalls'[Len(indexCalls')].compare) =>
          /\ datapointEdited /\ allRequiredInputsFilledOut
          /\ ~compareExamplesEnabled
          /\ indexCalls'[Len(indexCalls')].parentId = primarySelectedId]_vars
  /\ [][\A i \in 1..Len(indexCalls) :
          (indexDone(i) /\ indexCalls[i].compare) =>
            /\ compareExamplesEnabled'
            /\ primarySelectedId' = FreshIds[nextId + 1]
            /\ referenceSelectedId' = indexCalls[i].parentId]_vars
\* An Add and compare made on the record a1 has completed: comparison mode
\* is on, the new record is the primary selection and a1, its parent, the
\* secondary one.
C12_Witness ==
  /\ compareExamplesEnabled
  /\ primarySelectedId = FreshIds[1]
  /\ referenceSelectedId = "a1"
  /\ primarySelectedInputData # NoRecord
  /\ primarySelectedInputData.parentId = "a1"

\* C13: once the reactions to a change of the dataset (its data loaded) or
\* of the primary selection have run, in whatever order, the draft holds the
\* selected record's fields when a record is selected and the dataset's
\* defaults when none is, the modified flag is false, and a further run of
\* either reset (the selection's, with the selected record, or the
\* dataset's, with null) leaves the draft as it is.
C13_ResetsAgree ==
  (mounted /\ lastReset.kind # "none" /\ ~whenPending) =>
    /\ editedData = resetEditedData(primarySelectedInputData, currentDatasetSpec)
    /\ ~datapointEdited
    /\ (lastReset.kind = "null" =>
          resetEditedData(NoRecord, currentDatasetSpec) = editedData)
    /\ (primarySelectedInputData = NoRecord =>
          resetEditedData(NoRecord, currentDatasetSpec) = editedData)

\* C14: the input of a field is the first match of: a vocab, the selector;
\* a categorical feature, the single-line text input; a numerical feature,
\* the single-line numeric input; tokens or sequence tags, the input that
\* shows the value joined with spaces; span labels or edge labels, a
\* read-only rendering that sends no input event; a sparse multilabel, the
\* input that shows the value joined with the separator, the comma when the
\* field gives none; anything else, the free text input, whose converter is
\* the identity.  A field with a vocab gets the selector whatever its kind.
C14_FirstMatchWins ==
  entry.stage \in {"rendered", "parsed"} =>
    LET fieldSpec == entry.spec
        kind == fieldSpec.kind
        spec == [k \in {"field"} |-> fieldSpec]
        first ==
          IF fieldSpec.hasVocab THEN 1
          ELSE IF "field" \in categoricalFeatureNames(spec) THEN 2
          ELSE IF "field" \in numericalFeatureNames(spec) THEN 3
          ELSE IF kind \in {"Tokens", "SequenceTags"} THEN 4
          ELSE IF kind \in {"SpanLabels", "EdgeLabels"} THEN 5
          ELSE IF kind = "SparseMultilabel" THEN 6
          ELSE 7
        parsed == entry.stage = "parsed"
    IN /\ first = 1 <=> entry.input = "renderCategoricalInput"
       /\ first = 2 <=> entry.input = "renderShortformInput"
       /\ first = 3 <=> entry.input = "renderNumericInput"
       /\ first = 4 <=> entry.input = "renderTokensInput"
       /\ first = 5 <=> entry.input \in {"renderSpanLabelsNonEditable",
                                         "renderEdgeLabelsNonEditable"}
       /\ first = 6 <=> entry.input = "renderSparseMultilabelInput"
       /\ first = 7 <=> entry.input = "renderFreeformInput"
       /\ first = 4 => entry.shown = join(entry.value.l, <<" ">>)
       /\ first = 5 => ~parsed
       /\ (first = 6 /\ ~fieldSpec.hasSeparator) =>
            entry.shown = join(entry.value.l, <<",">>)
       /\ (first = 6 /\ fieldSpec.hasSeparator) =>
            entry.shown = join(entry.value.l, fieldSpec.separator)
       /\ (first \in {2, 7} /\ parsed) => entry.parsed = Str(entry.raw)
       /\ (first = 3 /\ parsed) => entry.parsed.t \in {"num", "nan"}
C14_Witness ==
  /\ entry.stage = "parsed"
  /\ entry.spec.hasVocab
  /\ entry.spec.kind = "Tokens"
  /\ entry.input = "renderCategoricalInput"

\* C15: for every token list in which no element holds a space, the
\* converter of the tokens input makes the list again of the string the
\* input shows, the list joined with single spaces; the empty list is shown
\* as the empty string, and the empty string is converted to the empty list.
C15_TokensRoundTrip ==
  (entry.stage \in {"rendered", "parsed"} /\ entry.input = "renderTokensInput") =>
    /\ entry.shown = join(entry.value.l, <<" ">>)
    /\ entry.value.l = <<>> => entry.shown = <<>>
    /\ (entry.stage = "parsed" /\ entry.raw = <<>>) => entry.parsed = Lst(<<>>)
    /\ ( /\ entry.stage = "parsed"
         /\ entry.raw = entry.shown
         /\ \A i \in 1..Len(entry.value.l) :
              \A j \in 1..Len(entry.value.l[i]) : entry.value.l[i][j] # " " )
       => entry.parsed = entry.value
\* C15, amended: the same for every such token list but [''], the list of
\* one empty token.
C15_TokensRoundTripButOneEmpty ==
  (entry.stage \in {"rendered", "parsed"} /\ entry.input = "renderTokensInput") =>
    /\ entry.shown = join(entry.value.l, <<" ">>)
    /\ entry.value.l = <<>> => entry.shown = <<>>
    /\ (entry.stage = "parsed" /\ entry.raw = <<>>) => entry.parsed = Lst(<<>>)
    /\ ( /\ entry.stage = "parsed"
         /\ entry.raw = entry.shown
         /\ entry.value.l # << <<>> >>
         /\ \A i \in 1..Len(entry.value.l) :
              \A j \in 1..Len(entry.value.l[i]) : entry.value.l[i][j] # " " )
       => entry.parsed = entry.value
C15_Witness ==
  /\ entry.stage = "parsed"
  /\ entry.input = "renderTokensInput"
  /\ entry.raw = entry.shown
  /\ entry.value.l = << <<"a">>, <<>> >>
  /\ entry.parsed = entry.value

\* C16: for every separator the field gives, the comma when it gives none,
\* and every label list in which no element holds the separator, the
\* converter of the sparse multilabel input makes the list again of the
\* string the input shows, the list joined with the separator; the empty
\* list is shown as the empty string, which is converted to the empty list.
C16_SparseRoundTrip ==
  (entry.stage \in {"rendered", "parsed"} /\ entry.input = "renderSparseMultilabelInput") =>
    LET separator == IF entry.spec.hasSeparator THEN entry.spec.separator ELSE <<",">>
    IN /\ entry.shown = join(entry.value.l, separator)
       /\ entry.value.l = <<>> => entry.shown = <<>>
       /\ (entry.stage = "parsed" /\ entry.raw = <<>>) => entry.parsed = Lst(<<>>)
       /\ ( /\ entry.stage = "parsed"
            /\ entry.raw = entry.shown
            /\ \A i \in 1..Len(entry.value.l) :
                 \A j \in 1..(Len(entry.value.l[i]) + 1) :
                   ~StartsWithAt(entry.value.l[i], separator, j) )
          => entry.parsed = entry.value
\* C16, amended: the same for every separator of one character and every
\* such label list but [''], the list of one empty label.
C16_SparseRoundTripOneCharacter ==
  (entry.stage \in {"rendered", "parsed"} /\ entry.input = "renderSparseMultilabelInput") =>
    LET separator == IF entry.spec.hasSeparator THEN entry.spec.separator ELSE <<",">>
    IN /\ entry.shown = join(entry.value.l, separator)
       /\ entry.value.l = <<>> => entry.shown = <<>>
       /\ (entry.stage = "parsed" /\ entry.raw = <<>>) => entry.parsed = Lst(<<>>)
       /\ ( /\ entry.stage = "parsed"
            /\ entry.raw = entry.shown
            /\ Len(separator) = 1
            /\ entry.value.l # << <<>> >>
            /\ \A i \in 1..Len(entry.value.l) :
                 \A j \in 1..(Len(entry.value.l[i]) + 1) :
                   ~StartsWithAt(entry.value.l[i], separator, j) )
          => entry.parsed = entry.value
C16_Witness ==
  /\ entry.stage = "parsed"
  /\ entry.input = "renderSparseMultilabelInput"
  /\ entry.spec.hasSeparator
  /\ entry.spec.separator = <<";">>
  /\ entry.raw = entry.shown
  /\ entry.value.l = << <<"a">>, <<",">> >>
  /\ entry.parsed = entry.value

\* C18: whenever the Reset button is enabled a record is primary-selected,
\* and a click on Reset leaves the draft equal to that record's fields and
\* the modified flag false.
C18_ResetHasSelection ==
  /\ []((mounted /\ resetEnabled) => primarySelectedInputData # NoRecord)
  /\ [][onClickReset =>
          /\ primarySelectedInputData # NoRecord
          /\ editedData' = primarySelectedInputData.data
          /\ ~datapointEdited']_vars

(***************************************************************************)
(* Properties of the asynchronous actions, checked under AsyncSpec.        *)
(***************************************************************************)
\* C17: save, load, create dataset and Add each issue exactly one remote
\* call, and nothing else issues one (no completion, failed or not, calls
\* again); no button waits for outstanding calls, so each can be clicked
\* again while its call is outstanding; and a completion takes its own call
\* off the outstanding ones, leaves the others outstanding and applies the
\* result of its own call.
C17_OneCallPerActionNoGuard ==
  /\ [][(save \/ load \/ loadNewDataset) =>
          /\ Len(apiCalls') = Len(apiCalls) + 1
          /\ indexCalls' = indexCalls]_vars
  /\ [][onClickNew =>
          /\ Len(indexCalls') = Len(indexCalls) + 1
          /\ apiCalls' = apiCalls]_vars
  /\ [][Len(apiCalls') > Len(apiCalls) => (save \/ load \/ loadNewDataset)]_vars
  /\ [][Len(indexCalls') > Len(indexCalls) => onClickNew]_vars
  /\ []((isOpen /\ selectedTab = "Dataset") =>
          /\ ~saveDatapointButtonDisabled => ENABLED save
          /\ ~loadDatapointButtonsDisabled => ENABLED load
          /\ ~loadDatapointButtonsDisabled => ENABLED loadNewDataset)
  /\ []((mounted /\ makeEnabled) => ENABLED onClickNew)
  /\ [][\A i \in 1..Len(apiCalls) :
          (saveDone(i) \/ loadDone(i) \/ loadNewDatasetDone(i)) =>
            /\ apiCalls' = RemoveAt(apiCalls, i)
            /\ indexCalls' = indexCalls
            /\ apiCalls[i].kind = "save" => datapointsStatus'.kind = "Saved"
            /\ apiCalls[i].kind = "load" =>
                 /\ datapointsStatus'.kind \in {"NoPersisted", "Loaded"}
                 /\ \A d \in DOMAIN inputData :
                      inputData'[d] \ inputData[d] \subseteq
                        PersistedDatapoints(apiCalls[i].dataset)
            /\ apiCalls[i].kind = "create" =>
                 /\ datapointsStatus'.kind \in {"Unable", "Added"}
                 /\ datapointsStatus'.kind = "Added" =>
                      metadata' = CreatedMetadata(apiCalls[i].dataset)]_vars
  /\ [][\A i \in 1..Len(indexCalls) :
          indexDone(i) =>
            /\ indexCalls' = RemoveAt(indexCalls, i)
            /\ apiCalls' = apiCalls
            /\ \A d \in DOMAIN inputData :
                 \A r \in inputData'[d] \ inputData[d] : r.data = indexCalls[i].data]_vars
\* Two loads are outstanding, issued for different datasets.
C17_Witness ==
  /\ Len(apiCalls) = 2
  /\ apiCalls[1].kind = "load"
  /\ apiCalls[2].kind = "load"
  /\ apiCalls[1].dataset # apiCalls[2].dataset

\* C20: save and load run only while the locally selected dataset is the
\* application's current dataset, and the records a completed load commits
\* were loaded for the dataset that is current when they are committed.
C20_SaveAndLoadOnCurrentDataset ==
  /\ [][save => selectedDataset = currentDataset]_vars
  /\ [][load => selectedDataset = currentDataset]_vars
  /\ [][\A i \in 1..Len(apiCalls) :
          (loadDone(i) /\ inputData' # inputData) =>
            apiCalls[i].dataset = currentDataset]_vars

====
